---- MODULE Spec2Model ----
(***************************************************************************)
(* steadyfocus: the task store of App, its partition views, the create /   *)
(* reconcile round trip, the bulk-sync effect and the FocusMode timer.     *)
(*                                                                         *)
(* One action is one handler (or one promise continuation) together with   *)
(* the React render it causes and the effects that run after that render:  *)
(* the current-task selection effect, the sync effect and FocusMode's      *)
(* task-change effect.                                                     *)
(***************************************************************************)
EXTENDS Integers, Sequences, FiniteSets, TLC

VARIABLES
    tasks,            \* App: useState<Task[]>
    currentTaskId,    \* App: useState<string | null>
    selectedTaskIds,  \* App: useState<string[]>
    filter,           \* App: useState<'today' | 'all'>
    authResponse,     \* App: session present (TRUE) or null (FALSE)
    isLoading,        \* App: useState(true)
    sessionPc,        \* position of checkSession
    loadPc,           \* position of loadData
    pendingCreates,   \* the newTask records whose tasksApi.create is in flight
    localCache,       \* localStorage 'steady-tasks'
    bulkIssued,       \* the last step called tasksApi.bulkUpdate
    lastBulk,         \* the payload of the most recent tasksApi.bulkUpdate
    bulkInFlight,     \* the most recent tasksApi.bulkUpdate has not settled yet
    remote,           \* the rows of the user's tasks table
    theme,            \* App: useState<ThemeName>('light')
    dailyGoal,        \* App: useState(3)
    savedTheme,       \* localStorage 'steady-theme'
    logoutPc,         \* position of handleLogout
    clock,            \* Date.now(), in milliseconds
    today,            \* the local day of "now"
    nextUuid,         \* the next id the database generates
    focusTaskId,      \* FocusMode: task?.id of the last render
    timeElapsed,      \* FocusMode: useState(0)
    sessionSeconds,   \* FocusMode: sessionSecondsRef.current
    isRunning,        \* FocusMode: useState(false)
    isPomodoroMode,   \* FocusMode: useState(false)
    pomodoroTime,     \* FocusMode: useState(25 * 60)
    isBreak,          \* FocusMode: useState(false)
    isMinimalMode,    \* FocusMode: useState(false)
    slashTask,        \* FocusMode: task.id held by handleComplete's pending timeout
    run,              \* history of the timer run since "Start Slashing"
    edits,            \* number of store mutations so far
    lastOp            \* the handler that ran last, with its arguments

storeVars == <<tasks, currentTaskId, selectedTaskIds, filter>>
sessVars  == <<authResponse, isLoading, sessionPc, loadPc>>
netVars   == <<pendingCreates, localCache, bulkIssued, lastBulk, nextUuid,
               bulkInFlight, remote>>
prefVars  == <<theme, dailyGoal, savedTheme, logoutPc>>
envVars   == <<clock, today>>
focusVars == <<focusTaskId, timeElapsed, sessionSeconds, isRunning,
               isPomodoroMode, pomodoroTime, isBreak, isMinimalMode,
               slashTask>>
histVars  == <<run, edits>>
vars == <<storeVars, sessVars, netVars, prefVars, envVars, focusVars, histVars,
          lastOp>>

(***************************************************************************)
(* Bounds of the model.                                                    *)
(***************************************************************************)
MaxAdds == 2          \* addTask calls in one run
MaxTicks == 12        \* stopwatch ticks in one run
MaxDay == 2           \* days 0..MaxDay; the session's day is drawn from them
MaxLoaded == 2        \* tasks in a loaded list
MaxPomodoros == 1     \* completed work intervals in one run
MaxEdits == 3         \* store mutations (other than add and timer flushes) in one run
MaxToggles == 1       \* uses of the Pomodoro mode toggle in one run
MaxSlashTicks == 3    \* ticks in one run with the Complete button
MaxTasks == 3         \* tasks in the store

(***************************************************************************)
(* Values.                                                                 *)
(***************************************************************************)
Null == 0             \* null / undefined id
NoDate == -1          \* undefined Date
NoOrder == -1000      \* undefined order
NoNotes == "undefined"
\* localStorage.getItem('steady-tasks') === null
NoCache == [present |-> FALSE, tasks |-> <<>>]
NoBulk == [called |-> FALSE, tasks |-> <<>>]   \* no bulkUpdate call yet
NoTheme == "null"     \* localStorage.getItem('steady-theme') === null
DefaultTheme == "light"
DefaultDailyGoal == 3

\* A Date is DayLength * day + time of day.
DayLength == 2
Midnight(day) == day * DayLength
DayOf(date) == date \div DayLength
\* new Date(now.getFullYear(), now.getMonth(), now.getDate())
TodayStart == Midnight(today)
\* Date.prototype.toDateString(): the calendar day of a Date
ToDateString(date) == DayOf(date)

\* Ids are strings in the source: Date.now().toString() has 13 characters,
\* a database UUID has 36.  An id below UuidBase stands for a clock value.
UuidBase == 100
IdLength(id) == IF id >= UuidBase THEN 36 ELSE 13
PendingIdLength == 20
\* a pending test whose threshold is longer than a UUID
IsPendingId_TooLong(id) == IdLength(id) < 2 * PendingIdLength

IsPendingId(id) == IdLength(id) < PendingIdLength
\* a sync effect without the pending-task check
HasPendingTask_Never(ts) == FALSE

HasPendingTask(ts) == \E i \in 1..Len(ts) : IsPendingId(ts[i].id)

Titles == {"a", "X"}
Notes == {NoNotes, "n"}

(***************************************************************************)
(* Sequence helpers (Array.prototype.map / filter / findIndex / splice).   *)
(***************************************************************************)
MapSeq(s, F(_)) == [i \in 1..Len(s) |-> F(s[i])]

FilterSeq(s, Test(_)) == SelectSeq(s, Test)

\* findIndex, 1-based; 0 when absent (the source's -1)
FindIndex(s, id) ==
    IF \E i \in 1..Len(s) : s[i].id = id
    THEN CHOOSE i \in 1..Len(s) : s[i].id = id /\ \A j \in 1..(i - 1) : s[j].id # id
    ELSE 0

HasId(s, id) == FindIndex(s, id) # 0
TaskOf(s, id) == s[FindIndex(s, id)]

RemoveAt(s, i) == SubSeq(s, 1, i - 1) \o SubSeq(s, i + 1, Len(s))
\* splice(k, 0, x) with a 0-based k; an index past the end appends
InsertAt(s, k, x) ==
    LET p == IF k > Len(s) THEN Len(s) ELSE k
    IN  SubSeq(s, 1, p) \o <<x>> \o SubSeq(s, p + 1, Len(s))

IdsOf(s) == {s[i].id : i \in 1..Len(s)}
SeqContains(s, x) == \E i \in 1..Len(s) : s[i] = x

(***************************************************************************)
(* Partition / filter engine.                                              *)
(***************************************************************************)
\* getFilteredTasks: the predicate of its filter callback
InFiltered(task, flt) ==
    IF task.completed THEN FALSE
    ELSE IF flt = "today"
         THEN IF task.scheduledDate # NoDate
              THEN IF task.scheduledDate < TodayStart THEN FALSE
                   ELSE ToDateString(task.scheduledDate) = ToDateString(TodayStart)
              ELSE TRUE
         ELSE TRUE

getFilteredTasks(taskList, flt) ==
    LET Keep(t) == InFiltered(t, flt) IN FilterSeq(taskList, Keep)

\* an overdue test that includes today's midnight
IsOverdue_Inclusive(task) ==
    IF task.completed THEN FALSE
    ELSE IF task.scheduledDate = NoDate THEN FALSE
         ELSE task.scheduledDate <= TodayStart

\* getOverdueTasks: the predicate of its filter callback
IsOverdue(task) ==
    IF task.completed THEN FALSE
    ELSE IF task.scheduledDate = NoDate THEN FALSE
         ELSE task.scheduledDate < TodayStart

getOverdueTasks(taskList) == FilterSeq(taskList, IsOverdue)

\* const currentTask = currentTaskId ? tasks.find(...) : null
CurrentTaskId(ts, cur) == IF cur # Null /\ HasId(ts, cur) THEN cur ELSE Null

\* the current-task selection effect
SelectCurrent(ts, cur, flt) ==
    IF cur # Null THEN cur
    ELSE LET f == getFilteredTasks(ts, flt)
         IN  IF f # <<>> THEN f[1].id ELSE Null

(***************************************************************************)
(* Task store: the pure part of each App handler.                          *)
(***************************************************************************)
NoRecurring == "undefined"

\* addTask: t.order ?? -1
OrderOr(t) == IF t.order = NoOrder THEN -1 ELSE t.order

RECURSIVE MaxOrderOf(_)
\* addTask: tasks.reduce((max, t) => Math.max(max, t.order ?? -1), -1)
MaxOrderOf(ts) ==
    IF ts = <<>> THEN -1
    ELSE LET m == MaxOrderOf(SubSeq(ts, 1, Len(ts) - 1))
             o == OrderOr(ts[Len(ts)])
         IN  IF o > m THEN o ELSE m

\* a newTask whose order is the number of tasks in the store
NewTask_OrderByCount(ts, now, title, scheduledDate, notes) ==
    [id |-> now, title |-> title, completed |-> FALSE, createdAt |-> now,
     scheduledDate |-> scheduledDate, recurring |-> NoRecurring, timeSpent |-> 0,
     startedAt |-> NoDate, completedAt |-> NoDate, notes |-> notes,
     pomodoroSessions |-> 0, order |-> Len(ts)]

\* addTask: the newTask literal
NewTask(ts, now, title, scheduledDate, notes) ==
    [id |-> now, title |-> title, completed |-> FALSE, createdAt |-> now,
     scheduledDate |-> scheduledDate, recurring |-> NoRecurring, timeSpent |-> 0,
     startedAt |-> NoDate, completedAt |-> NoDate, notes |-> notes,
     pomodoroSessions |-> 0, order |-> MaxOrderOf(ts) + 1]

\* tasksApi.create: mapTaskToDB, insert with a generated id, mapTaskFromDB.
\* The row has no order column in either mapping.
CreatedTask(newTask, uuid) ==
    [id |-> uuid, title |-> newTask.title, completed |-> newTask.completed,
     createdAt |-> newTask.createdAt, scheduledDate |-> newTask.scheduledDate,
     recurring |-> newTask.recurring, timeSpent |-> newTask.timeSpent,
     startedAt |-> newTask.startedAt, completedAt |-> newTask.completedAt,
     notes |-> newTask.notes, pomodoroSessions |-> newTask.pomodoroSessions,
     order |-> NoOrder]

\* a merge that keeps only the order and the completion of the client task
MergeCreated_ServerEcho(createdTask, t) ==
    [createdTask EXCEPT !.order = t.order, !.completed = t.completed]

\* mapTaskToDB: the row written for a task; it has no order column
ToRow(t) == [t EXCEPT !.order = NoOrder]

\* addTask, create response: the merge of the server task with the client task
MergeCreated(createdTask, t) ==
    [createdTask EXCEPT !.order = t.order, !.completed = t.completed,
                        !.title = t.title, !.notes = t.notes,
                        !.scheduledDate = t.scheduledDate,
                        !.timeSpent = t.timeSpent, !.startedAt = t.startedAt,
                        !.pomodoroSessions = t.pomodoroSessions]

\* addTask, create response: prevTasks.map(...)
ReconcileTasks(ts, provisionalId, createdTask) ==
    [i \in 1..Len(ts) |->
        IF ts[i].id = provisionalId THEN MergeCreated(createdTask, ts[i]) ELSE ts[i]]

\* addTask, create response: the remap of selectedTaskIds and currentTaskId
RemapId(id, provisionalId, durableId) == IF id = provisionalId THEN durableId ELSE id

\* a rollback that removes every task still waiting for its create response
RollbackTasks_AllPending(ts, provisionalId) ==
    LET Keep(t) == ~IsPendingId(t.id) IN FilterSeq(ts, Keep)

\* addTask, create failure: prevTasks.filter(t => t.id !== newTask.id)
RollbackTasks(ts, provisionalId) ==
    LET Keep(t) == t.id # provisionalId IN FilterSeq(ts, Keep)

\* completeTask / completeSelectedTasks: the completed copy of a task
Completed(task, now) ==
    [task EXCEPT !.completed = TRUE, !.completedAt = now, !.startedAt = NoDate]

CompleteTasks(ts, id, now) ==
    [i \in 1..Len(ts) |-> IF ts[i].id = id THEN Completed(ts[i], now) ELSE ts[i]]

\* completeTask: the current task computed from updatedTasks
NextAfterComplete(updatedTasks, id, flt) ==
    LET filteredTasks == getFilteredTasks(updatedTasks, flt)
        currentIndex == FindIndex(filteredTasks, id) - 1
    IN  IF currentIndex < Len(filteredTasks) - 1
        THEN filteredTasks[currentIndex + 2].id
        ELSE IF Len(filteredTasks) > 1 THEN filteredTasks[1].id
             ELSE Null

\* confirmDelete: tasks.filter(task => task.id !== id)
DeleteTasks(ts, id) == LET Keep(t) == t.id # id IN FilterSeq(ts, Keep)

\* startTask
StartTasks(ts, id, now) ==
    [i \in 1..Len(ts) |->
        [ts[i] EXCEPT !.startedAt = IF ts[i].id = id THEN now ELSE NoDate]]

\* an updateTaskTime that stores the flushed seconds instead of adding them
UpdateTime_Overwrite(ts, id, seconds) ==
    [i \in 1..Len(ts) |->
        IF ts[i].id = id THEN [ts[i] EXCEPT !.timeSpent = seconds] ELSE ts[i]]

\* updateTaskTime: (task.timeSpent || 0) + seconds
UpdateTime(ts, id, seconds) ==
    [i \in 1..Len(ts) |->
        IF ts[i].id = id THEN [ts[i] EXCEPT !.timeSpent = ts[i].timeSpent + seconds]
        ELSE ts[i]]

\* updateTaskSchedule
UpdateSchedule(ts, id, scheduledDate) ==
    [i \in 1..Len(ts) |->
        IF ts[i].id = id THEN [ts[i] EXCEPT !.scheduledDate = scheduledDate] ELSE ts[i]]

\* updateTaskNotes
UpdateNotes(ts, id, notes) ==
    [i \in 1..Len(ts) |-> IF ts[i].id = id THEN [ts[i] EXCEPT !.notes = notes] ELSE ts[i]]

\* updateTaskTitle
UpdateTitle(ts, id, title) ==
    [i \in 1..Len(ts) |-> IF ts[i].id = id THEN [ts[i] EXCEPT !.title = title] ELSE ts[i]]

\* incrementPomodoroSession: (task.pomodoroSessions || 0) + 1
IncrementPomodoro(ts, id) ==
    [i \in 1..Len(ts) |->
        IF ts[i].id = id
        THEN [ts[i] EXCEPT !.pomodoroSessions = ts[i].pomodoroSessions + 1]
        ELSE ts[i]]

\* reorderTasks: the two splices
MoveTask(ts, dragId, hoverId) ==
    LET dragIndex == FindIndex(ts, dragId) - 1
        hoverIndex == FindIndex(ts, hoverId) - 1
    IN  InsertAt(RemoveAt(ts, dragIndex + 1), hoverIndex, ts[dragIndex + 1])

\* a renumbering that counts from 1
AssignOrder_OneBased(ts) == [i \in 1..Len(ts) |-> [ts[i] EXCEPT !.order = i]]

\* reorderTasks: newTasks.map((t, index) => ({ ...t, order: index }))
AssignOrder(ts) == [i \in 1..Len(ts) |-> [ts[i] EXCEPT !.order = i - 1]]

\* restoreTask
RestoreTasks(ts, id) ==
    [i \in 1..Len(ts) |->
        IF ts[i].id = id
        THEN [ts[i] EXCEPT !.completed = FALSE, !.completedAt = NoDate]
        ELSE ts[i]]

\* a reschedule that moves every incomplete task scheduled for another day
RescheduleOverdue_AnyOtherDay(ts) ==
    [i \in 1..Len(ts) |->
        IF ts[i].completed THEN ts[i]
        ELSE IF ts[i].scheduledDate = NoDate THEN ts[i]
        ELSE IF DayOf(ts[i].scheduledDate) # today
             THEN [ts[i] EXCEPT !.scheduledDate = TodayStart]
             ELSE ts[i]]

\* rescheduleAllOverdueToToday
RescheduleOverdue(ts) ==
    [i \in 1..Len(ts) |->
        IF ts[i].completed THEN ts[i]
        ELSE IF ts[i].scheduledDate = NoDate THEN ts[i]
        ELSE IF ts[i].scheduledDate < TodayStart
             THEN [ts[i] EXCEPT !.scheduledDate = TodayStart]
             ELSE ts[i]]

\* toggleTaskSelection
ToggleSelection(sel, id) ==
    IF SeqContains(sel, id)
    THEN LET Keep(x) == x # id IN FilterSeq(sel, Keep)
    ELSE Append(sel, id)

\* focusTasks: the selected incomplete tasks while a selection exists, the
\* filtered tasks otherwise
focusTasks(ts, sel, flt) ==
    IF Len(sel) > 0
    THEN LET Keep(t) == SeqContains(sel, t.id) /\ ~t.completed IN FilterSeq(ts, Keep)
    ELSE getFilteredTasks(ts, flt)

\* nextTask: focusTasks[findIndex(currentTask) + 1], Null when undefined
nextTask(ts, cur, sel, flt) ==
    LET f == focusTasks(ts, sel, flt)
        i == FindIndex(f, cur)
    IN  IF CurrentTaskId(ts, cur) = Null THEN Null
        ELSE IF i + 1 <= Len(f) THEN f[i + 1].id ELSE Null

(***************************************************************************)
(* Rendering and effects.                                                  *)
(***************************************************************************)
WorkSeconds == 1500      \* 25 * 60
BreakSeconds == 300      \* 5 * 60
FlushThreshold == 10

Op(name, id, arg) == [op |-> name, id |-> id, arg |-> arg]

\* The sync effect of App (deps [tasks, authResponse, isLoading]); ran is
\* TRUE when one of its dependencies changed in this render.  The model
\* follows the most recent bulkUpdate call to its end; a call that a newer
\* one overtakes is one whose request failed without an authentication error.
SyncEffect(ts, auth, loading, ran) ==
    IF ran /\ auth /\ ~loading
    THEN /\ localCache' = [present |-> TRUE, tasks |-> ts]
         /\ IF HasPendingTask(ts)
            THEN /\ bulkIssued' = FALSE
                 /\ lastBulk' = lastBulk
                 /\ bulkInFlight' = bulkInFlight
            ELSE /\ bulkIssued' = TRUE
                 /\ lastBulk' = [called |-> TRUE, tasks |-> ts]
                 /\ bulkInFlight' = TRUE
    ELSE /\ localCache' = localCache
         /\ bulkIssued' = FALSE
         /\ lastBulk' = lastBulk
         /\ bulkInFlight' = bulkInFlight

\* The settings effect of App (deps [theme, dailyGoal, authResponse,
\* isLoading]): what it writes to localStorage 'steady-theme'.
SettingsEffect(th, auth, loading) ==
    savedTheme' = IF auth /\ ~loading THEN th ELSE savedTheme

\* task?.timeSpent || 0
TimeSpentOf(ts, id) == IF id # Null /\ HasId(ts, id) THEN TaskOf(ts, id).timeSpent ELSE 0

\* The state of a FocusMode instance.
FocusState ==
    [timeElapsed |-> timeElapsed, sessionSeconds |-> sessionSeconds,
     isRunning |-> isRunning, isBreak |-> isBreak,
     isPomodoroMode |-> isPomodoroMode, pomodoroTime |-> pomodoroTime,
     isMinimalMode |-> isMinimalMode, slashTask |-> slashTask]

\* The useState / useRef initial values of FocusMode.
InitialFocusState ==
    [timeElapsed |-> 0, sessionSeconds |-> 0, isRunning |-> FALSE,
     isBreak |-> FALSE, isPomodoroMode |-> FALSE, pomodoroTime |-> WorkSeconds,
     isMinimalMode |-> FALSE, slashTask |-> Null]

\* FocusMode's task-change effect (deps [task?.id]): what it sets.
TaskChanged(fm, ts, newId) ==
    [fm EXCEPT !.timeElapsed = TimeSpentOf(ts, newId), !.sessionSeconds = 0,
               !.isRunning = FALSE, !.isBreak = FALSE]

\* FocusMode is mounted while App shows a loaded session; an unmounted
\* FocusMode has lost its state.  fm is its state after the handler, midId
\* is task?.id in the render the handler caused, newId the one after the
\* selection effect; rn is the history of the run after the handler.
FocusEffect(fm, rn, ts, midId, newId, mounted) ==
    LET changed == focusTaskId # midId \/ midId # newId
        fm2 == IF ~mounted THEN InitialFocusState
               ELSE IF changed THEN TaskChanged(fm, ts, newId)
               ELSE fm
    IN  /\ run' = IF ~mounted \/ changed THEN [rn EXCEPT !.taskChanged = TRUE] ELSE rn
        /\ focusTaskId' = IF mounted THEN newId ELSE Null
        /\ timeElapsed' = fm2.timeElapsed
        /\ sessionSeconds' = fm2.sessionSeconds
        /\ isRunning' = fm2.isRunning
        /\ isBreak' = fm2.isBreak
        /\ isPomodoroMode' = fm2.isPomodoroMode
        /\ pomodoroTime' = fm2.pomodoroTime
        /\ isMinimalMode' = fm2.isMinimalMode
        /\ slashTask' = fm2.slashTask

\* A handler has produced ts, cur, sel and the FocusMode state fm: the
\* render and its effects.  ran: a dependency of the sync effect changed;
\* auth and loading are the values the sync effect's closure sees, mounted
\* tells whether FocusMode is on screen afterwards.
RenderWith(ts, cur, sel, flt, ran, fm, rn, auth, loading, mounted) ==
    LET cur2 == SelectCurrent(ts, cur, flt)
    IN  /\ tasks' = ts
        /\ currentTaskId' = cur2
        /\ selectedTaskIds' = sel
        /\ filter' = flt
        /\ SyncEffect(ts, auth, loading, ran)
        /\ FocusEffect(fm, rn, ts, CurrentTaskId(ts, cur), CurrentTaskId(ts, cur2),
                       mounted)

\* the render after a handler that leaves the session alone
Render(ts, cur, sel, flt, tasksSet, fm, rn) ==
    RenderWith(ts, cur, sel, flt, tasksSet, fm, rn, authResponse, isLoading,
               authResponse /\ ~isLoading)

\* the user interface of a loaded session is on screen
Ready == authResponse /\ ~isLoading

(***************************************************************************)
(* App handlers.                                                           *)
(***************************************************************************)
Days == 0..MaxDay
AbsentId == 99                       \* an id no task carries
IdInputs == IdsOf(tasks) \cup {AbsentId}
NewScheduleInputs == {NoDate} \cup {Midnight(d) : d \in {x \in Days : x >= today}}
ScheduleInputs == {Midnight(d) : d \in Days}

\* what a handler that touches neither the session nor the network leaves alone
Frame == UNCHANGED <<sessVars, today, prefVars, remote>>

\* addTask(title, scheduledDate, recurring, notes), up to the create request,
\* called elapsed milliseconds after the latest Date.now() the app has read
AddTaskAt(elapsed, title, scheduledDate, notes) ==
    /\ Ready
    /\ clock + elapsed \in 1..MaxAdds
    /\ (nextUuid - UuidBase - 1) + Cardinality(pendingCreates) < MaxTasks
    /\ LET now == clock + elapsed
           newTask == NewTask(tasks, now, title, scheduledDate, notes)
       IN  /\ clock' = now
           /\ pendingCreates' = pendingCreates \cup {newTask}
           /\ Render(Append(tasks, newTask), currentTaskId, selectedTaskIds,
                     filter, TRUE, FocusState, run)
           /\ lastOp' = Op("addTask", now, 0)
    /\ UNCHANGED <<nextUuid, edits>>
    /\ Frame

\* addTask in a later millisecond than every add before it
AddTask(title, scheduledDate, notes) == AddTaskAt(1, title, scheduledDate, notes)

\* addTask: the then-callback of tasksApi.create
CreateResponse(newTask) ==
    /\ newTask \in pendingCreates
    /\ LET createdTask == CreatedTask(newTask, nextUuid)
           RemapSel(id) == RemapId(id, newTask.id, createdTask.id)
       IN  /\ Render(ReconcileTasks(tasks, newTask.id, createdTask),
                     RemapId(currentTaskId, newTask.id, createdTask.id),
                     MapSeq(selectedTaskIds, RemapSel),
                     filter, TRUE, FocusState, run)
           /\ lastOp' = Op("createResponse", newTask.id, createdTask.id)
    /\ pendingCreates' = pendingCreates \ {newTask}
    /\ nextUuid' = nextUuid + 1
    /\ remote' = remote \cup {ToRow(CreatedTask(newTask, nextUuid))}
    /\ UNCHANGED <<clock, edits, sessVars, today, prefVars>>

\* addTask: the catch-callback of tasksApi.create
CreateFailure(newTask) ==
    /\ newTask \in pendingCreates
    /\ Render(RollbackTasks(tasks, newTask.id), currentTaskId, selectedTaskIds,
              filter, TRUE, FocusState, run)
    /\ lastOp' = Op("createFailure", newTask.id, 0)
    /\ pendingCreates' = pendingCreates \ {newTask}
    /\ UNCHANGED <<clock, nextUuid, edits>>
    /\ Frame

\* what every store mutation of the user shares
Mutation == 
    /\ Ready
    /\ edits < MaxEdits
    /\ edits' = edits + 1
    /\ UNCHANGED <<pendingCreates, nextUuid, clock>>
    /\ Frame

\* completeTask(id)
CompleteTask(id) ==
    /\ Mutation
    /\ LET updatedTasks == CompleteTasks(tasks, id, clock)
       IN  Render(updatedTasks, NextAfterComplete(updatedTasks, id, filter),
                  selectedTaskIds, filter, TRUE, FocusState, run)
    /\ lastOp' = Op("completeTask", id, 0)

\* deleteTask(id) and the confirmDelete that follows it
\* deleted: tasksApi.delete(id) removed the row (TRUE) or threw (FALSE)
ConfirmDelete(id, deleted) ==
    /\ Ready
    /\ edits < MaxEdits
    /\ edits' = edits + 1
    /\ HasId(tasks, id)
    /\ LET Keep(x) == x # id
       IN  Render(DeleteTasks(tasks, id),
                  IF currentTaskId = id THEN Null ELSE currentTaskId,
                  FilterSeq(selectedTaskIds, Keep), filter, TRUE, FocusState, run)
    /\ remote' = IF deleted THEN {r \in remote : r.id # id} ELSE remote
    /\ lastOp' = Op("confirmDelete", id, 0)
    /\ UNCHANGED <<pendingCreates, nextUuid, clock, sessVars, today, prefVars>>

\* startTask(id)
StartTask(id) ==
    /\ Mutation
    /\ Render(StartTasks(tasks, id, clock), id, selectedTaskIds, filter, TRUE,
              FocusState, run)
    /\ lastOp' = Op("startTask", id, 0)

\* updateTaskTime(id, seconds)
UpdateTaskTime(id, seconds) ==
    /\ Mutation
    /\ Render(UpdateTime(tasks, id, seconds), currentTaskId, selectedTaskIds,
              filter, TRUE, FocusState, run)
    /\ lastOp' = Op("updateTaskTime", id, seconds)

\* updateTaskSchedule(id, scheduledDate)
UpdateTaskSchedule(id, scheduledDate) ==
    /\ Mutation
    /\ Render(UpdateSchedule(tasks, id, scheduledDate), currentTaskId,
              selectedTaskIds, filter, TRUE, FocusState, run)
    /\ lastOp' = Op("updateTaskSchedule", id, scheduledDate)

\* updateTaskNotes(id, notes)
UpdateTaskNotes(id, notes) ==
    /\ Mutation
    /\ Render(UpdateNotes(tasks, id, notes), currentTaskId, selectedTaskIds,
              filter, TRUE, FocusState, run)
    /\ lastOp' = Op("updateTaskNotes", id, 0)

\* updateTaskTitle(id, title)
UpdateTaskTitle(id, title) ==
    /\ Mutation
    /\ Render(UpdateTitle(tasks, id, title), currentTaskId, selectedTaskIds,
              filter, TRUE, FocusState, run)
    /\ lastOp' = Op("updateTaskTitle", id, 0)

\* incrementPomodoroSession(id)
IncrementPomodoroSession(id) ==
    /\ Mutation
    /\ Render(IncrementPomodoro(tasks, id), currentTaskId, selectedTaskIds,
              filter, TRUE, FocusState, run)
    /\ lastOp' = Op("incrementPomodoroSession", id, 0)

\* a reorder that leaves a current task where it is
FirstAfterReorder_KeepCurrent(newTasks, cur, flt) ==
    LET newFilteredTasks == getFilteredTasks(newTasks, flt)
    IN  IF newFilteredTasks # <<>> /\ cur = Null
        THEN newFilteredTasks[1].id
        ELSE cur

\* reorderTasks: the current task after the move
FirstAfterReorder(newTasks, cur, flt) ==
    LET newFilteredTasks == getFilteredTasks(newTasks, flt)
    IN  IF newFilteredTasks # <<>> /\ newFilteredTasks[1].id # cur
        THEN newFilteredTasks[1].id
        ELSE cur

\* reorderTasks(dragId, hoverId)
ReorderTasks(dragId, hoverId) ==
    /\ Mutation
    /\ IF ~HasId(tasks, dragId) \/ ~HasId(tasks, hoverId)
       THEN /\ UNCHANGED <<storeVars, focusVars, localCache, lastBulk, bulkInFlight,
                           run>>
            /\ bulkIssued' = FALSE
       ELSE LET newTasks == MoveTask(tasks, dragId, hoverId)
            IN  Render(AssignOrder(newTasks),
                       FirstAfterReorder(newTasks, currentTaskId, filter),
                       selectedTaskIds, filter, TRUE, FocusState, run)
    /\ lastOp' = Op("reorderTasks", dragId, hoverId)

\* setFilter(f): the 'today' / 'all' buttons of the plan view
SetFilter(f) ==
    /\ Ready
    /\ f # filter
    /\ Render(tasks, currentTaskId, selectedTaskIds, f, FALSE, FocusState, run)
    /\ lastOp' = Op("setFilter", 0, 0)
    /\ UNCHANGED <<pendingCreates, nextUuid, clock, edits>>
    /\ Frame

\* toggleTaskSelection(id)
ToggleTaskSelection(id) ==
    /\ Ready
    /\ Render(tasks, currentTaskId, ToggleSelection(selectedTaskIds, id), filter,
              FALSE, FocusState, run)
    /\ lastOp' = Op("toggleTaskSelection", id, 0)
    /\ UNCHANGED <<pendingCreates, nextUuid, clock, edits>>
    /\ Frame

\* startSelectedTasks()
StartSelectedTasks ==
    /\ Ready
    /\ Len(selectedTaskIds) # 0
    /\ Render(tasks, selectedTaskIds[1], <<>>, filter, FALSE, FocusState, run)
    /\ lastOp' = Op("startSelectedTasks", selectedTaskIds[1], Len(selectedTaskIds))
    /\ UNCHANGED <<pendingCreates, nextUuid, clock, edits>>
    /\ Frame

\* restoreTask(id)
RestoreTask(id) ==
    /\ Mutation
    /\ Render(RestoreTasks(tasks, id), currentTaskId, selectedTaskIds, filter,
              TRUE, FocusState, run)
    /\ lastOp' = Op("restoreTask", id, 0)

\* the theme button: setTheme(darkMode ? 'light' : 'dark')
ToggleTheme ==
    /\ Ready
    /\ theme' = IF theme = "dark" THEN "light" ELSE "dark"
    /\ Render(tasks, currentTaskId, selectedTaskIds, filter, FALSE, FocusState, run)
    /\ SettingsEffect(theme', authResponse, isLoading)
    /\ lastOp' = Op("toggleTheme", 0, 0)
    /\ UNCHANGED <<pendingCreates, nextUuid, clock, edits, sessVars, today,
                   dailyGoal, logoutPc, remote>>

\* rescheduleTaskToToday(id)
RescheduleTaskToToday(id) ==
    /\ Mutation
    /\ Render(UpdateSchedule(tasks, id, TodayStart), currentTaskId,
              selectedTaskIds, filter, TRUE, FocusState, run)
    /\ lastOp' = Op("rescheduleTaskToToday", id, 0)

\* rescheduleAllOverdueToToday()
RescheduleAllOverdueToToday ==
    /\ Mutation
    /\ Render(RescheduleOverdue(tasks), currentTaskId, selectedTaskIds, filter,
              TRUE, FocusState, run)
    /\ lastOp' = Op("rescheduleAllOverdueToToday", 0, 0)


(***************************************************************************)
(* Session check, login and the initial load.                              *)
(***************************************************************************)


\* tasksApi.getAll: the rows of the user, newest first, through mapTaskFromDB
LoadedTask(k) ==
    [id |-> UuidBase + 10 + k, title |-> "a", completed |-> FALSE,
     createdAt |-> 0 - (10 + k), scheduledDate |-> NoDate, recurring |-> NoRecurring,
     timeSpent |-> 0, startedAt |-> NoDate, completedAt |-> NoDate,
     notes |-> NoNotes, pomodoroSessions |-> 0, order |-> NoOrder]

LoadedList(n) == [k \in 1..n |-> LoadedTask(k)]
LoadedLists == {LoadedList(n) : n \in 0..MaxLoaded}

\* loadData, catch: the tasks parsed from localStorage
FromCache(cache) ==
    [i \in 1..Len(cache) |->
        [cache[i] EXCEPT
            !.scheduledDate = IF cache[i].scheduledDate # NoDate
                              THEN cache[i].scheduledDate ELSE NoDate,
            !.startedAt = IF cache[i].startedAt # NoDate
                          THEN cache[i].startedAt ELSE NoDate,
            !.completedAt = IF cache[i].completedAt # NoDate
                            THEN cache[i].completedAt ELSE NoDate]]

\* the rows of a task list
RowsOf(ts) == {ToRow(ts[i]) : i \in 1..Len(ts)}

\* the sequences of the rows of a set, every row once
RECURSIVE Orderings(_)
Orderings(rows) ==
    IF rows = {} THEN {<<>>}
    ELSE UNION {{<<r>> \o rest : rest \in Orderings(rows \ {r})} : r \in rows}

\* tasksApi.getAll: select * order by created_at descending, each row
\* through mapTaskFromDB; rows of equal created_at come in either order
GetAll(rows) ==
    {s \in Orderings(rows) :
        \A i, j \in 1..Len(s) : i < j => s[i].createdAt >= s[j].createdAt}

SessionFrame ==
    UNCHANGED <<pendingCreates, nextUuid, envVars, edits, remote, logoutPc>>

\* settingsApi.get: the stored settings row, or the default
\* { theme: 'minimal', dailyGoal: 3 } when there is none
LoadedSettings ==
    {[theme |-> "minimal", dailyGoal |-> 3], [theme |-> "dark", dailyGoal |-> 5]}

\* loadData: 'minimal' is loaded as 'light'
ThemeName(loadedTheme) == IF loadedTheme = "minimal" THEN "light" ELSE loadedTheme

\* checkSession: getSession() has resolved; with a session the
\* [authResponse] effect calls loadData
GetSessionResolved(hasSession) ==
    /\ sessionPc = "getSession"
    /\ sessionPc' = "getAppState"
    /\ authResponse' = hasSession
    /\ loadPc' = IF hasSession THEN "getAll" ELSE loadPc
    /\ isLoading' = IF hasSession THEN TRUE ELSE isLoading
    /\ RenderWith(tasks, currentTaskId, selectedTaskIds, filter, hasSession,
                  FocusState, run, hasSession, isLoading, hasSession /\ ~isLoading)
    /\ UNCHANGED <<theme, dailyGoal>>
    /\ SettingsEffect(theme, hasSession, isLoading)
    /\ lastOp' = Op("getSession", 0, 0)
    /\ SessionFrame

\* checkSession: getAppState() has resolved, the finally block runs
CheckSessionFinally ==
    /\ sessionPc = "getAppState"
    /\ sessionPc' = "done"
    /\ isLoading' = FALSE
    /\ UNCHANGED <<authResponse, loadPc>>
    /\ RenderWith(tasks, currentTaskId, selectedTaskIds, filter, isLoading,
                  FocusState, run, authResponse, FALSE, authResponse)
    /\ UNCHANGED <<theme, dailyGoal>>
    /\ SettingsEffect(theme, authResponse, FALSE)
    /\ lastOp' = Op("checkSessionFinally", 0, 0)
    /\ SessionFrame

\* handleAuth: sign-in has resolved.  Its own loadData() call sees the old
\* authResponse and returns; the [authResponse] effect calls loadData, whose
\* setIsLoading(true) is not yet visible to the sync effect of that render.
HandleAuth ==
    /\ ~authResponse
    /\ ~isLoading
    /\ authResponse' = TRUE
    /\ isLoading' = TRUE
    /\ loadPc' = "getAll"
    /\ UNCHANGED sessionPc
    /\ RenderWith(tasks, currentTaskId, selectedTaskIds, filter, TRUE,
                  FocusState, run, TRUE, FALSE, FALSE)
    /\ UNCHANGED <<theme, dailyGoal>>
    /\ SettingsEffect(theme, TRUE, FALSE)
    /\ lastOp' = Op("handleAuth", 0, 0)
    /\ SessionFrame

\* loadData: tasksApi.getAll() has resolved
LoadTasksResolved(loadedTasks) ==
    /\ loadPc = "getAll"
    /\ loadPc' = "getSettings"
    /\ UNCHANGED <<authResponse, isLoading, sessionPc>>
    /\ RenderWith(loadedTasks, currentTaskId, selectedTaskIds, filter, TRUE,
                  FocusState, run, authResponse, isLoading, authResponse /\ ~isLoading)
    /\ UNCHANGED <<theme, dailyGoal>>
    /\ SettingsEffect(theme, authResponse, isLoading)
    /\ lastOp' = Op("loadTasks", Len(loadedTasks), 0)
    /\ SessionFrame

\* loadData: settingsApi.get() has resolved, the finally block runs
LoadSettingsResolved(loadedSettings) ==
    /\ loadPc = "getSettings"
    /\ loadPc' = "done"
    /\ isLoading' = FALSE
    /\ UNCHANGED <<authResponse, sessionPc>>
    /\ RenderWith(tasks, currentTaskId, selectedTaskIds, filter, isLoading,
                  FocusState, run, authResponse, FALSE, authResponse)
    /\ theme' = ThemeName(loadedSettings.theme)
    /\ dailyGoal' = loadedSettings.dailyGoal
    /\ SettingsEffect(ThemeName(loadedSettings.theme), authResponse, FALSE)
    /\ lastOp' = Op("loadSettings", 0, 0)
    /\ SessionFrame

\* loadData: getAll() or get() has thrown; the catch block falls back to
\* localStorage and the finally block runs
LoadFailed ==
    /\ loadPc \in {"getAll", "getSettings"}
    /\ loadPc' = "failed"
    /\ isLoading' = FALSE
    /\ UNCHANGED <<authResponse, sessionPc>>
    /\ LET restored == localCache.present
           ts == IF restored THEN FromCache(localCache.tasks) ELSE tasks
       IN  RenderWith(ts, currentTaskId, selectedTaskIds, filter,
                      restored \/ isLoading, FocusState, run, authResponse, FALSE,
                      authResponse)
    /\ LET th == IF savedTheme # NoTheme THEN ThemeName(savedTheme) ELSE theme
       IN  theme' = th /\ SettingsEffect(th, authResponse, FALSE)
    /\ UNCHANGED dailyGoal
    /\ lastOp' = Op("loadFailed", 0, 0)
    /\ SessionFrame

(***************************************************************************)
(* The bulk sync round trip and logout.                                    *)
(***************************************************************************)
\* upsert(dbTasks): a row per sent task, replacing the row of the same id
Upsert(rows, payload) ==
    {r \in rows : ~HasId(payload, r.id)} \cup RowsOf(payload)

\* tasksApi.bulkUpdate(tasks), the request as the database applies it
BulkUpdate(rows, payload) == IF Len(payload) = 0 THEN rows ELSE Upsert(rows, payload)

NetFrame ==
    UNCHANGED <<storeVars, sessVars, pendingCreates, localCache, bulkIssued,
                lastBulk, nextUuid, envVars, focusVars, histVars, theme,
                dailyGoal, savedTheme>>

\* syncTasks: await tasksApi.bulkUpdate(tasks) has resolved
BulkResolved ==
    /\ bulkInFlight
    /\ bulkInFlight' = FALSE
    /\ remote' = BulkUpdate(remote, lastBulk.tasks)
    /\ lastOp' = Op("bulkResolved", Len(lastBulk.tasks), 0)
    /\ UNCHANGED logoutPc
    /\ NetFrame

\* syncTasks, catch: bulkUpdate has thrown.  authError: the message contains
\* 'Invalid JWT' or '401', and handleLogout is called, up to await signOut()
BulkFailed(authError) ==
    /\ bulkInFlight
    /\ logoutPc = "idle"
    /\ bulkInFlight' = FALSE
    /\ logoutPc' = IF authError THEN "signOut" ELSE logoutPc
    /\ lastOp' = Op("bulkFailed", Len(lastBulk.tasks), IF authError THEN 401 ELSE 500)
    /\ UNCHANGED remote
    /\ NetFrame

\* handleLogout: signOut() has resolved
SignOutResolved ==
    /\ logoutPc = "signOut"
    /\ logoutPc' = "idle"
    /\ authResponse' = FALSE
    /\ theme' = DefaultTheme
    /\ dailyGoal' = DefaultDailyGoal
    /\ UNCHANGED <<isLoading, sessionPc, loadPc>>
    /\ RenderWith(<<>>, currentTaskId, selectedTaskIds, filter, TRUE, FocusState,
                  run, FALSE, isLoading, FALSE)
    /\ SettingsEffect(DefaultTheme, FALSE, isLoading)
    /\ lastOp' = Op("signOutResolved", 0, 0)
    /\ UNCHANGED <<pendingCreates, nextUuid, envVars, edits, remote>>

\* handleLogout, catch: signOut() has thrown
SignOutFailed ==
    /\ logoutPc = "signOut"
    /\ logoutPc' = "idle"
    /\ lastOp' = Op("signOutFailed", 0, 0)
    /\ UNCHANGED <<bulkInFlight, remote>>
    /\ NetFrame

(***************************************************************************)
(* FocusMode: the timer.                                                   *)
(***************************************************************************)
\* the history a run of the timer starts with
NewRun(ts, id, fm) ==
    [ticks |-> 0, flushed |-> 0, baseSpent |-> TimeSpentOf(ts, id),
     basePomodoros |-> IF HasId(ts, id) THEN TaskOf(ts, id).pomodoroSessions ELSE 0,
     startRemaining |-> fm.pomodoroTime, startUnflushed |-> fm.sessionSeconds,
     task |-> id, taskChanged |-> FALSE, toggles |-> run.toggles,
     total |-> run.total]

TimerFrame ==
    UNCHANGED <<sessVars, pendingCreates, nextUuid, envVars, edits, prefVars,
                remote>>

\* the "Start Slashing" button
StartTimer ==
    /\ Ready
    /\ focusTaskId # Null
    /\ ~isMinimalMode
    /\ LET fm == [FocusState EXCEPT !.isRunning = TRUE, !.isMinimalMode = TRUE]
       IN  Render(tasks, currentTaskId, selectedTaskIds, filter, FALSE, fm,
                  NewRun(tasks, focusTaskId, fm))
    /\ lastOp' = Op("startTimer", focusTaskId, 0)
    /\ TimerFrame

\* one call of the interval callback: the FocusMode state it leaves and the
\* onUpdateTime / onIncrementPomodoro calls it makes
TickResult(fm) ==
    IF fm.isPomodoroMode
    THEN IF fm.pomodoroTime > 0
         THEN IF ~fm.isBreak
              THEN IF fm.sessionSeconds + 1 >= FlushThreshold
                   THEN [fm |-> [fm EXCEPT !.pomodoroTime = @ - 1, !.timeElapsed = @ + 1,
                                           !.sessionSeconds = 0],
                         flush |-> fm.sessionSeconds + 1, increment |-> FALSE]
                   ELSE [fm |-> [fm EXCEPT !.pomodoroTime = @ - 1, !.timeElapsed = @ + 1,
                                           !.sessionSeconds = @ + 1],
                         flush |-> 0, increment |-> FALSE]
              ELSE [fm |-> [fm EXCEPT !.pomodoroTime = @ - 1],
                    flush |-> 0, increment |-> FALSE]
         ELSE IF ~fm.isBreak
              THEN [fm |-> [fm EXCEPT !.isRunning = FALSE, !.sessionSeconds = 0,
                                      !.isBreak = TRUE, !.pomodoroTime = BreakSeconds],
                    flush |-> fm.sessionSeconds, increment |-> TRUE]
              ELSE [fm |-> [fm EXCEPT !.isRunning = FALSE, !.isBreak = FALSE,
                                      !.pomodoroTime = WorkSeconds],
                    flush |-> 0, increment |-> FALSE]
    ELSE IF fm.sessionSeconds + 1 >= FlushThreshold
         THEN [fm |-> [fm EXCEPT !.timeElapsed = @ + 1, !.sessionSeconds = 0],
               flush |-> fm.sessionSeconds + 1, increment |-> FALSE]
         ELSE [fm |-> [fm EXCEPT !.timeElapsed = @ + 1, !.sessionSeconds = @ + 1],
               flush |-> 0, increment |-> FALSE]

\* The state updates a tick queues, applied in order: onUpdateTime is the
\* updater prev => ..., onIncrementPomodoro sets tasks.map(...) computed
\* from the tasks of the render that created it.
TickTasks(ts, id, r) ==
    LET afterFlush == IF r.flush > 0 THEN UpdateTime(ts, id, r.flush) ELSE ts
    IN  IF r.increment THEN IncrementPomodoro(ts, id) ELSE afterFlush

\* the tick may fire: the bounds of the run are not exhausted
TickAllowed ==
    IF isPomodoroMode
    THEN isBreak \/ TaskOf(tasks, focusTaskId).pomodoroSessions < MaxPomodoros
    ELSE run.total < MaxTicks

\* the interval callback of the tick effect
Tick ==
    /\ Ready
    /\ isRunning
    /\ focusTaskId # Null
    /\ TickAllowed
    /\ LET r == TickResult(FocusState)
       IN  Render(TickTasks(tasks, focusTaskId, r), currentTaskId,
                  selectedTaskIds, filter, r.flush > 0 \/ r.increment, r.fm,
                  [run EXCEPT !.ticks = @ + 1, !.flushed = @ + r.flush,
                              !.total = IF isPomodoroMode THEN @ ELSE @ + 1])
    /\ lastOp' = Op("tick", focusTaskId, 0)
    /\ TimerFrame

\* handleStop
HandleStop ==
    /\ Ready
    /\ focusTaskId # Null
    /\ isMinimalMode
    /\ LET flush == sessionSeconds > 0
           fm == [FocusState EXCEPT !.isRunning = FALSE, !.sessionSeconds = 0,
                                    !.isMinimalMode = FALSE]
       IN  Render(IF flush THEN UpdateTime(tasks, focusTaskId, sessionSeconds)
                  ELSE tasks,
                  currentTaskId, selectedTaskIds, filter, flush, fm,
                  [run EXCEPT !.flushed = @ + sessionSeconds])
    /\ lastOp' = Op("handleStop", focusTaskId, 0)
    /\ TimerFrame

\* handleComplete, up to its setTimeout: the slash animation begins
HandleComplete ==
    /\ Ready
    /\ focusTaskId # Null
    /\ isMinimalMode
    /\ slashTask = Null
    /\ LET fm == [FocusState EXCEPT !.isRunning = FALSE, !.isMinimalMode = FALSE,
                                    !.slashTask = focusTaskId]
       IN  Render(tasks, currentTaskId, selectedTaskIds, filter, FALSE, fm, run)
    /\ lastOp' = Op("handleComplete", focusTaskId, sessionSeconds)
    /\ TimerFrame

\* handleComplete, the timeout callback 1.5 seconds later: task is the one
\* of the render in which Complete was pressed, sessionSecondsRef is read now
CompleteCommit ==
    /\ Ready
    /\ slashTask # Null
    /\ LET flushed == IF sessionSeconds > 0
                      THEN UpdateTime(tasks, slashTask, sessionSeconds)
                      ELSE tasks
           updatedTasks == CompleteTasks(flushed, slashTask, clock)
           fm == [FocusState EXCEPT !.sessionSeconds = 0, !.timeElapsed = 0,
                                    !.slashTask = Null]
       IN  Render(updatedTasks, NextAfterComplete(updatedTasks, slashTask, filter),
                  selectedTaskIds, filter, TRUE, fm,
                  [run EXCEPT !.flushed = @ + sessionSeconds])
    /\ lastOp' = Op("completeCommit", slashTask, sessionSeconds)
    /\ TimerFrame

\* The Pomodoro mode toggle of the timer view.  Entering Pomodoro mode
\* begins a work interval, which is where the history of the run restarts.
TogglePomodoro ==
    /\ Ready
    /\ focusTaskId # Null
    /\ ~isMinimalMode
    /\ run.toggles < MaxToggles
    /\ LET fm == IF ~isPomodoroMode
                 THEN [FocusState EXCEPT !.isPomodoroMode = TRUE,
                                         !.pomodoroTime = WorkSeconds,
                                         !.isBreak = FALSE, !.isRunning = FALSE]
                 ELSE [FocusState EXCEPT !.isPomodoroMode = FALSE,
                                         !.isRunning = FALSE]
           rn == IF ~isPomodoroMode THEN NewRun(tasks, focusTaskId, fm) ELSE run
       IN  Render(tasks, currentTaskId, selectedTaskIds, filter, FALSE, fm,
                  [rn EXCEPT !.toggles = @ + 1])
    /\ lastOp' = Op("togglePomodoro", focusTaskId, 0)
    /\ TimerFrame

\* the play / pause button of the timer view
PauseResume ==
    /\ Ready
    /\ focusTaskId # Null
    /\ ~isMinimalMode
    /\ LET fm == [FocusState EXCEPT !.isRunning = ~isRunning]
       IN  Render(tasks, currentTaskId, selectedTaskIds, filter, FALSE, fm, run)
    /\ lastOp' = Op("pauseResume", focusTaskId, 0)
    /\ TimerFrame

(***************************************************************************)
(* Specifications.                                                         *)
(***************************************************************************)
NoRun ==
    [ticks |-> 0, flushed |-> 0, baseSpent |-> 0, basePomodoros |-> 0,
     startRemaining |-> WorkSeconds, startUnflushed |-> 0, task |-> Null,
     taskChanged |-> FALSE, toggles |-> 0, total |-> 0]

\* App and FocusMode as constructed, before the session check has resolved
Init ==
    /\ tasks = <<>>
    /\ currentTaskId = Null
    /\ selectedTaskIds = <<>>
    /\ filter = "today"
    /\ authResponse = FALSE
    /\ isLoading = TRUE
    /\ sessionPc = "getSession"
    /\ loadPc = "idle"
    /\ pendingCreates = {}
    /\ localCache = NoCache
    /\ bulkIssued = FALSE
    /\ lastBulk = NoBulk
    /\ bulkInFlight = FALSE
    /\ remote \in {RowsOf(ts) : ts \in LoadedLists}
    /\ theme = DefaultTheme
    /\ dailyGoal = DefaultDailyGoal
    /\ savedTheme = NoTheme
    /\ logoutPc = "idle"
    /\ clock = 0
    /\ today = 1
    /\ nextUuid = UuidBase + 1
    /\ focusTaskId = Null
    /\ timeElapsed = 0
    /\ sessionSeconds = 0
    /\ isRunning = FALSE
    /\ isPomodoroMode = FALSE
    /\ pomodoroTime = WorkSeconds
    /\ isBreak = FALSE
    /\ isMinimalMode = FALSE
    /\ slashTask = Null
    /\ run = NoRun
    /\ edits = 0
    /\ lastOp = Op("init", 0, 0)

\* startup, login, load, the create round trip and the sync effect
Next ==
    \/ \E hasSession \in BOOLEAN : GetSessionResolved(hasSession)
    \/ CheckSessionFinally
    \/ HandleAuth
    \/ \E loadedTasks \in GetAll(remote) : LoadTasksResolved(loadedTasks)
    \/ \E loadedSettings \in LoadedSettings : LoadSettingsResolved(loadedSettings)
    \/ LoadFailed
    \/ AddTask("a", NoDate, NoNotes)
    \/ \E newTask \in pendingCreates : CreateResponse(newTask)
    \/ \E newTask \in pendingCreates : CreateFailure(newTask)
    \/ \E id \in IdsOf(tasks) : UpdateTaskTitle(id, "X")

Spec == Init /\ [][Next]_vars

\* The state of a session whose load has completed with the list ts: the
\* session check and loadData have run to their end, the selection effect
\* has chosen the current task and the sync effect has run.
LoadedSession(ts, day) ==
    /\ today = day
    /\ tasks = ts
    /\ currentTaskId = SelectCurrent(ts, Null, "today")
    /\ selectedTaskIds = <<>>
    /\ filter = "today"
    /\ authResponse = TRUE
    /\ isLoading = FALSE
    /\ sessionPc = "done"
    /\ loadPc = "done"
    /\ pendingCreates = {}
    /\ localCache = [present |-> TRUE, tasks |-> ts]
    /\ bulkIssued = FALSE
    /\ lastBulk = [called |-> TRUE, tasks |-> ts]
    /\ bulkInFlight = FALSE
    /\ remote = RowsOf(ts)
    /\ theme = DefaultTheme
    /\ dailyGoal = DefaultDailyGoal
    /\ savedTheme = DefaultTheme
    /\ logoutPc = "idle"
    /\ clock = 0
    /\ nextUuid = UuidBase + 1
    /\ focusTaskId = CurrentTaskId(ts, SelectCurrent(ts, Null, "today"))
    /\ timeElapsed = TimeSpentOf(ts, focusTaskId)
    /\ sessionSeconds = 0
    /\ isRunning = FALSE
    /\ isPomodoroMode = FALSE
    /\ pomodoroTime = WorkSeconds
    /\ isBreak = FALSE
    /\ isMinimalMode = FALSE
    /\ slashTask = Null
    /\ run = NoRun
    /\ edits = 0
    /\ lastOp = Op("init", 0, 0)

\* --- the store while creates are in flight ---
InitReconcile == LoadedSession(<<>>, 1)

NextReconcile ==
    \/ \E scheduledDate \in {NoDate, TodayStart} : AddTask("a", scheduledDate, NoNotes)
    \/ \E newTask \in pendingCreates : CreateResponse(newTask)
    \/ \E newTask \in pendingCreates : CreateFailure(newTask)
    \/ \E id \in IdsOf(tasks) : UpdateTaskTitle(id, "X")
    \/ \E id \in IdsOf(tasks) : UpdateTaskSchedule(id, Midnight(MaxDay))
    \/ \E id \in IdsOf(tasks) : UpdateTaskNotes(id, "n")
    \/ \E dragId, hoverId \in IdsOf(tasks) : ReorderTasks(dragId, hoverId)
    \/ \E id \in IdsOf(tasks) : CompleteTask(id)
    \/ \E id \in IdsOf(tasks) : StartTask(id)
    \/ \E id \in IdsOf(tasks) : UpdateTaskTime(id, 1)
    \/ \E id \in IdsOf(tasks) : IncrementPomodoroSession(id)

SpecReconcile == InitReconcile /\ [][NextReconcile]_vars

\* --- manual order and the current-task pointer ---
InitOrder == \E n \in 0..MaxTasks : LoadedSession(LoadedList(n), 1)

NextOrder ==
    \/ \E dragId, hoverId \in IdInputs : ReorderTasks(dragId, hoverId)
    \/ \E id \in IdsOf(tasks) : CompleteTask(id)
    \/ \E id \in IdsOf(tasks) : StartTask(id)

SpecOrder == InitOrder /\ [][NextOrder]_vars

\* --- the partitions ---
Dates == 0..((MaxDay + 1) * DayLength - 1)

PartitionTask(k, completed, scheduledDate) ==
    [LoadedTask(k) EXCEPT !.completed = completed,
                          !.completedAt = IF completed THEN 0 ELSE NoDate,
                          !.scheduledDate = scheduledDate]

PartitionLists ==
    {<<>>} \cup
    {<<PartitionTask(1, c, d)>> : c \in BOOLEAN, d \in Dates \cup {NoDate}} \cup
    {<<PartitionTask(1, c, d), PartitionTask(2, FALSE, e)>> :
        c \in BOOLEAN, d \in Dates \cup {NoDate}, e \in {NoDate, 0}}

InitPartition == \E ts \in PartitionLists, day \in Days : LoadedSession(ts, day)

NextPartition ==
    \/ \E f \in {"today", "all"} : SetFilter(f)
    \/ \E id \in IdsOf(tasks) : RescheduleTaskToToday(id)
    \/ RescheduleAllOverdueToToday
    \/ \E id \in IdsOf(tasks) : CompleteTask(id)

SpecPartition == InitPartition /\ [][NextPartition]_vars

\* --- the stopwatch and the create round trip ---
InitFocus == \E n \in 0..1 : LoadedSession(LoadedList(n), 1)

NextFocus ==
    \/ AddTask("a", NoDate, NoNotes)
    \/ \E newTask \in pendingCreates : CreateResponse(newTask)
    \/ \E newTask \in pendingCreates : CreateFailure(newTask)
    \/ StartTimer
    \/ Tick
    \/ HandleStop

SpecFocus == InitFocus /\ [][NextFocus]_vars

\* --- the Pomodoro timer ---
InitPomodoro == LoadedSession(LoadedList(1), 1)

NextPomodoro ==
    \/ Tick
    \/ TogglePomodoro
    \/ PauseResume

SpecPomodoro == InitPomodoro /\ [][NextPomodoro]_vars

\* --- store mutations with ids that may be absent ---
InitAbsent == \E n \in 0..MaxLoaded : LoadedSession(LoadedList(n), 1)

NextAbsent ==
    \/ \E id \in IdInputs : CompleteTask(id)
    \/ \E id \in IdInputs : RestoreTask(id)
    \/ \E id \in IdInputs : StartTask(id)
    \/ \E id \in IdInputs : UpdateTaskSchedule(id, Midnight(MaxDay))
    \/ \E id \in IdInputs : UpdateTaskTitle(id, "X")
    \/ \E id \in IdInputs : UpdateTaskTime(id, 1)
    \/ \E id \in IdInputs : IncrementPomodoroSession(id)
    \/ \E dragId, hoverId \in IdInputs : ReorderTasks(dragId, hoverId)

SpecAbsent == InitAbsent /\ [][NextAbsent]_vars

\* --- provisional ids ---
InitIds == LoadedSession(<<>>, 1)

NextIds ==
    \/ \E elapsed \in {0, 1} : AddTaskAt(elapsed, "a", NoDate, NoNotes)
    \/ \E newTask \in pendingCreates : CreateResponse(newTask)
    \/ \E newTask \in pendingCreates : CreateFailure(newTask)

SpecIds == InitIds /\ [][NextIds]_vars

\* --- selection ---
InitSelect == \E n \in 0..MaxTasks : LoadedSession(LoadedList(n), 1)

NextSelect ==
    \/ \E id \in IdsOf(tasks) : ToggleTaskSelection(id)
    \/ StartSelectedTasks
    \/ \E id \in IdsOf(tasks) : CompleteTask(id)

SpecSelect == InitSelect /\ [][NextSelect]_vars

\* the rows the create requests in flight insert when they reach the server
PendingRows ==
    {ToRow(CreatedTask(t, nextUuid + Cardinality({u \in pendingCreates : u.id < t.id}))) :
        t \in pendingCreates}

\* The app is closed and opened again with no bulk sync in flight: App and
\* FocusMode are constructed anew, localStorage and the database are kept.
\* The callbacks of the create requests in flight are gone with the old
\* process; arrived tells whether the requests reached the server.
RelaunchWith(arrived) ==
    /\ Ready
    /\ ~bulkInFlight
    /\ logoutPc = "idle"
    /\ pendingCreates' = {}
    /\ remote' = IF arrived THEN remote \cup PendingRows ELSE remote
    /\ nextUuid' = IF arrived THEN nextUuid + Cardinality(pendingCreates) ELSE nextUuid
    /\ tasks' = <<>>
    /\ currentTaskId' = Null
    /\ selectedTaskIds' = <<>>
    /\ filter' = "today"
    /\ authResponse' = FALSE
    /\ isLoading' = TRUE
    /\ sessionPc' = "getSession"
    /\ loadPc' = "idle"
    /\ bulkIssued' = FALSE
    /\ theme' = DefaultTheme
    /\ dailyGoal' = DefaultDailyGoal
    /\ focusTaskId' = Null
    /\ timeElapsed' = 0
    /\ sessionSeconds' = 0
    /\ isRunning' = FALSE
    /\ isPomodoroMode' = FALSE
    /\ pomodoroTime' = WorkSeconds
    /\ isBreak' = FALSE
    /\ isMinimalMode' = FALSE
    /\ slashTask' = Null
    /\ run' = [NoRun EXCEPT !.toggles = run.toggles, !.total = run.total]
    /\ lastOp' = Op("relaunch", 0, 0)
    /\ UNCHANGED <<localCache, lastBulk, bulkInFlight, savedTheme, logoutPc,
                   envVars, edits>>

\* the app is closed and opened again with no request in flight
Relaunch == pendingCreates = {} /\ RelaunchWith(FALSE)

\* --- the database behind bulk sync and reload ---
InitRemote == \E n \in 0..MaxLoaded : LoadedSession(LoadedList(n), 1)

NextRemote ==
    \/ \E dragId, hoverId \in IdsOf(tasks) : ReorderTasks(dragId, hoverId)
    \/ \E id \in IdsOf(tasks), deleted \in BOOLEAN : ConfirmDelete(id, deleted)
    \/ BulkResolved
    \/ Relaunch
    \/ GetSessionResolved(TRUE)
    \/ CheckSessionFinally
    \/ \E loadedTasks \in GetAll(remote) : LoadTasksResolved(loadedTasks)
    \/ LoadSettingsResolved([theme |-> "minimal", dailyGoal |-> 3])

SpecRemote == InitRemote /\ [][NextRemote]_vars

\* --- bulk sync failures and logout ---
InitLogout == LoadedSession(LoadedList(1), 1)

NextLogout ==
    \/ \E id \in IdsOf(tasks) : UpdateTaskTitle(id, "X")
    \/ ToggleTheme
    \/ BulkResolved
    \/ \E authError \in BOOLEAN : BulkFailed(authError)
    \/ SignOutResolved
    \/ SignOutFailed
    \/ HandleAuth
    \/ \E loadedTasks \in GetAll(remote) : LoadTasksResolved(loadedTasks)
    \/ \E loadedSettings \in LoadedSettings : LoadSettingsResolved(loadedSettings)
    \/ LoadFailed

SpecLogout == InitLogout /\ [][NextLogout]_vars

\* --- the current task of the focus view ---
InitCurrent == \E n \in 0..MaxLoaded : LoadedSession(LoadedList(n), 1)

NextCurrent ==
    \/ \E id \in IdsOf(tasks), d \in NewScheduleInputs : UpdateTaskSchedule(id, d)
    \/ \E f \in {"today", "all"} : SetFilter(f)
    \/ \E id \in IdsOf(tasks) : StartTask(id)
    \/ AddTask("a", NoDate, NoNotes)
    \/ \E newTask \in pendingCreates : CreateFailure(newTask)

SpecCurrent == InitCurrent /\ [][NextCurrent]_vars

\* --- Pomodoro intervals in the normal layout and in the minimal bar ---
InitBreak == LoadedSession(LoadedList(1), 1)

\* the user enters Pomodoro mode first, and enters and leaves the minimal
\* bar only during a break
NextBreak ==
    \/ Tick
    \/ TogglePomodoro
    \/ isPomodoroMode /\ PauseResume
    \/ isBreak /\ StartTimer
    \/ isBreak /\ HandleStop

SpecBreak == InitBreak /\ [][NextBreak]_vars

\* --- deleting a task whose create request is in flight ---
\* every tasksApi.delete request succeeds here, and none is sent while a
\* bulk sync that may still carry the task is in flight
InitOrphan == LoadedSession(<<>>, 1)

NextOrphan ==
    \/ \E scheduledDate \in {NoDate, TodayStart} : AddTask("a", scheduledDate, NoNotes)
    \/ \E newTask \in pendingCreates : CreateResponse(newTask)
    \/ \E id \in IdsOf(tasks) : ~bulkInFlight /\ ConfirmDelete(id, TRUE)
    \/ BulkResolved

SpecOrphan == InitOrphan /\ [][NextOrphan]_vars

\* --- restart with a create request in flight ---
InitRestart == LoadedSession(<<>>, 1)

NextRestart ==
    \/ AddTask("a", NoDate, NoNotes)
    \/ \E newTask \in pendingCreates : CreateResponse(newTask)
    \/ \E newTask \in pendingCreates : CreateFailure(newTask)
    \/ BulkResolved
    \/ \E arrived \in BOOLEAN : RelaunchWith(arrived)
    \/ GetSessionResolved(TRUE)
    \/ CheckSessionFinally
    \/ \E loadedTasks \in GetAll(remote) : LoadTasksResolved(loadedTasks)
    \/ LoadSettingsResolved([theme |-> "minimal", dailyGoal |-> 3])
    \/ LoadFailed

SpecRestart == InitRestart /\ [][NextRestart]_vars

\* --- the Complete button of the minimal bar ---
InitComplete == LoadedSession(<<>>, 1)

NextComplete ==
    \/ AddTask("a", NoDate, NoNotes)
    \/ \E newTask \in pendingCreates : CreateResponse(newTask)
    \/ StartTimer
    \/ run.total < MaxSlashTicks /\ Tick
    \/ HandleComplete
    \/ CompleteCommit

SpecComplete == InitComplete /\ [][NextComplete]_vars

\* --- the order values of a store built from an empty one ---
\* the store that n adds to an empty store, each reconciled, have left
AddedTask(k) ==
    [LoadedTask(k) EXCEPT !.createdAt = k - (MaxLoaded + 1), !.order = k - 1]

AddedList(n) == [k \in 1..n |-> AddedTask(k)]

InitStore == \E n \in 0..(MaxLoaded - 1) : LoadedSession(AddedList(n), 1)

NextStore ==
    \/ AddTask("a", NoDate, NoNotes)
    \/ \E newTask \in pendingCreates : CreateResponse(newTask)
    \/ \E newTask \in pendingCreates : CreateFailure(newTask)
    \/ \E dragId, hoverId \in IdsOf(tasks) : ReorderTasks(dragId, hoverId)
    \/ \E id \in IdsOf(tasks) : ConfirmDelete(id, TRUE)
    \/ \E id \in IdsOf(tasks) : CompleteTask(id)
    \/ \E id \in IdsOf(tasks) : RestoreTask(id)
    \/ \E id \in IdsOf(tasks) : RescheduleTaskToToday(id)
    \/ \E id \in IdsOf(tasks) : UpdateTaskTitle(id, "X")

SpecStore == InitStore /\ [][NextStore]_vars

\* --- what a reorder leaves alone ---
InitReorder == \E n \in 0..MaxTasks : LoadedSession(LoadedList(n), 1)

NextReorder ==
    \/ \E dragId, hoverId \in IdsOf(tasks) : ReorderTasks(dragId, hoverId)
    \/ \E id \in IdsOf(tasks) : ToggleTaskSelection(id)
    \/ \E id \in IdsOf(tasks) : StartTask(id)
    \/ \E id \in IdsOf(tasks) : UpdateTaskSchedule(id, Midnight(MaxDay))

SpecReorder == InitReorder /\ [][NextReorder]_vars

(***************************************************************************)
(* Properties.                                                             *)
(***************************************************************************)
\* a provisional id is a client id, a clock value; a durable id is a UUID
Provisional(id) == id # Null /\ id < UuidBase
SomeProvisional(ts) == \E i \in 1..Len(ts) : Provisional(ts[i].id)

\* C1: in an authenticated, loaded session, a step that leaves a task with a
\* provisional id in the store has issued no bulk-sync call, and no payload
\* of a bulk-sync call contains a provisional id.
C1_NoBulkSyncWhilePending ==
    /\ (authResponse /\ ~isLoading /\ SomeProvisional(tasks)) => ~bulkIssued
    /\ lastBulk.called => ~SomeProvisional(lastBulk.tasks)

\* C1 witness: a store change of a loaded session with a provisional id in
\* the store went by without a bulk-sync call, after an earlier call was made.
C1_Witness ==
    /\ authResponse /\ ~isLoading
    /\ lastOp.op = "updateTaskTitle"
    /\ SomeProvisional(tasks)
    /\ Len(tasks) > 1
    /\ ~bulkIssued
    /\ lastBulk.called

\* C6: a bulk-sync call is issued only in an authenticated session whose
\* task-list load response has been applied to the store.
C6_NoBulkSyncBeforeLoad ==
    bulkIssued => (authResponse /\ loadPc \in {"getSettings", "done"})

\* the fields of a task that reconciliation takes from the client
SameLocalFields(a, b) ==
    /\ a.title = b.title
    /\ a.notes = b.notes
    /\ a.scheduledDate = b.scheduledDate
    /\ a.order = b.order
    /\ a.completed = b.completed
    /\ a.timeSpent = b.timeSpent
    /\ a.startedAt = b.startedAt
    /\ a.pomodoroSessions = b.pomodoroSessions

CountId(ts, id) == Cardinality({i \in 1..Len(ts) : ts[i].id = id})

\* C2: when the create response for provisional id P arrives, the task in
\* P's place gets the durable id and keeps title, notes, scheduledDate,
\* order, completed, timeSpent, startedAt and pomodoroSessions as they were
\* just before the response; exactly one task carries the durable id, none
\* carries P, and every other task is untouched.
C2_ReconcileKeepsLocalEdits ==
    [][(lastOp'.op = "createResponse" /\ CountId(tasks, lastOp'.id) > 0) =>
        LET P == lastOp'.id
            D == lastOp'.arg
        IN  /\ ~Provisional(D)
            /\ Len(tasks') = Len(tasks)
            /\ CountId(tasks', P) = 0
            /\ CountId(tasks', D) = 1
            /\ \A i \in 1..Len(tasks) :
                 IF tasks[i].id = P
                 THEN tasks'[i].id = D /\ SameLocalFields(tasks'[i], tasks[i])
                 ELSE tasks'[i] = tasks[i]]_vars

\* C2 witness: a create response has arrived for a task that was retitled
\* and rescheduled while the request was in flight.
C2_Witness ==
    /\ lastOp.op = "createResponse"
    /\ \E i \in 1..Len(tasks) :
         /\ tasks[i].id = lastOp.arg
         /\ tasks[i].title = "X"
         /\ tasks[i].scheduledDate = Midnight(MaxDay)

\* C10: when the create request of provisional id P fails, the task with id
\* P is removed and the rest of the list is the list as it was.
C10_FailedCreateRemovesOnlyThatTask ==
    [][(lastOp'.op = "createFailure" /\ CountId(tasks, lastOp'.id) > 0) =>
        LET P == lastOp'.id
            i == CHOOSE k \in 1..Len(tasks) : tasks[k].id = P
        IN  /\ CountId(tasks', P) = 0
            /\ tasks' = SubSeq(tasks, 1, i - 1) \o SubSeq(tasks, i + 1, Len(tasks))]_vars

\* C10 witness: a create has failed while another task, itself still
\* waiting for its create response, stays in the store.
C10_Witness ==
    /\ lastOp.op = "createFailure"
    /\ Len(tasks) = 1
    /\ Provisional(tasks[1].id)
    /\ tasks[1].id # lastOp.id

\* C4: completing the current task moves the current pointer to the task
\* that followed it in the filtered set, wraps to the first remaining task
\* when it was last, and clears the pointer when it was the only one.
C4_CompleteAdvancesToFollowingTask ==
    [][(/\ lastOp'.op = "completeTask"
        /\ lastOp'.id = currentTaskId
        /\ HasId(getFilteredTasks(tasks, filter), currentTaskId)) =>
        LET f == getFilteredTasks(tasks, filter)
            i == FindIndex(f, currentTaskId)
        IN  currentTaskId' = IF i < Len(f) THEN f[i + 1].id
                             ELSE IF Len(f) > 1 THEN f[1].id
                             ELSE Null]_vars

\* C7: after a reorder call with both ids in the store every task's order is
\* its 0-based index in the list; a call with an absent id changes neither
\* the list nor any order.
C7_ReorderRenumbers ==
    [][lastOp'.op = "reorderTasks" =>
        IF CountId(tasks, lastOp'.id) > 0 /\ CountId(tasks, lastOp'.arg) > 0
        THEN /\ Len(tasks') = Len(tasks)
             /\ \A i \in 1..Len(tasks') : tasks'[i].order = i - 1
        ELSE tasks' = tasks]_vars

\* C7 witness: a second reorder call has moved a task of a three-task list,
\* and the list is no longer in its loaded sequence.
C7_Witness ==
    /\ lastOp.op = "reorderTasks"
    /\ edits >= 2
    /\ Len(tasks) = 3
    /\ tasks[1].id # LoadedTask(1).id
    /\ tasks[3].order = 2

FocusTaskAfter ==
    IF lastOp'.op = "createResponse" /\ lastOp'.id = focusTaskId
    THEN lastOp'.arg
    ELSE focusTaskId

\* C5: whenever the task shown in FocusMode changes while seconds are
\* unflushed, the previous task's timeSpent first grows by those seconds.
C5_TaskChangeFlushesFirst ==
    [][(/\ focusTaskId # Null
        /\ focusTaskId' # focusTaskId
        /\ sessionSeconds > 0
        /\ HasId(tasks', FocusTaskAfter)) =>
        TimeSpentOf(tasks', FocusTaskAfter) =
            TimeSpentOf(tasks, focusTaskId) + sessionSeconds]_vars

\* the task is in getOverdueTasks() / in getFilteredTasks() under 'today'
InOverdue(t) == HasId(getOverdueTasks(tasks), t.id)
InTodayOrUnscheduled(t) == HasId(getFilteredTasks(tasks, "today"), t.id)
ScheduledAfterToday(t) ==
    ~t.completed /\ t.scheduledDate # NoDate /\ DayOf(t.scheduledDate) > today
PartitionsHolding(t) ==
    (IF InOverdue(t) THEN 1 ELSE 0) + (IF InTodayOrUnscheduled(t) THEN 1 ELSE 0)
        + (IF t.completed THEN 1 ELSE 0)

\* C8, as the claim states it: every task is in exactly one of overdue, today-or-
\* unscheduled, completed.
C8_ExactlyOnePartition ==
    \A i \in 1..Len(tasks) : PartitionsHolding(tasks[i]) = 1

\* C8: every task is in at most one of overdue, today-or-unscheduled and
\* completed, and it is in none of them exactly when it is incomplete and
\* scheduled for a day after today.
C8_AtMostOnePartition ==
    \A i \in 1..Len(tasks) :
        /\ PartitionsHolding(tasks[i]) <= 1
        /\ (PartitionsHolding(tasks[i]) = 0) <=> ScheduledAfterToday(tasks[i])

\* C8 witness: an overdue task has been rescheduled to today's midnight
\* while another task is scheduled after today.
C8_Witness ==
    /\ lastOp.op = "rescheduleTaskToToday"
    /\ \E i, j \in 1..Len(tasks) :
         /\ tasks[i].scheduledDate = TodayStart
         /\ InTodayOrUnscheduled(tasks[i])
         /\ ScheduledAfterToday(tasks[j])

\* a Pomodoro work interval begun at 1500 seconds with nothing unflushed on
\* a task without sessions, the same task since
WorkIntervalRun ==
    /\ isPomodoroMode
    /\ run.startRemaining = WorkSeconds
    /\ run.startUnflushed = 0
    /\ run.basePomodoros = 0
    /\ ~run.taskChanged
    /\ HasId(tasks, run.task)

\* C9: after exactly 1500 ticks the controller is in Break with
\* 300 seconds, not ticking, pomodoroSessions is 1 and 1500 seconds flushed.
C9_BreakAfter1500Ticks ==
    (WorkIntervalRun /\ lastOp.op = "tick" /\ run.ticks = WorkSeconds) =>
        /\ isBreak
        /\ pomodoroTime = BreakSeconds
        /\ ~isRunning
        /\ TaskOf(tasks, run.task).pomodoroSessions = 1
        /\ run.flushed = WorkSeconds

\* C11: once handleLogout, called for a bulk sync that failed with an
\* authentication error, has run to its end, the session is null, the task
\* store is empty, the theme is 'light', dailyGoal is 3 and no bulk sync has
\* been issued again.
C11_AuthFailureLogsOut ==
    lastOp.op \in {"signOutResolved", "signOutFailed"} =>
        /\ ~authResponse
        /\ tasks = <<>>
        /\ theme = DefaultTheme
        /\ dailyGoal = DefaultDailyGoal
        /\ ~bulkIssued

\* C12: in an authenticated, loaded session the create response or create
\* failure that removes the last provisional id from the store issues a
\* bulk-sync call whose payload is the task list after that change.
C12_SyncResumesAfterLastCreate ==
    [][(/\ lastOp'.op \in {"createResponse", "createFailure"}
        /\ SomeProvisional(tasks)
        /\ ~SomeProvisional(tasks')) =>
        /\ bulkIssued'
        /\ lastBulk'.called
        /\ lastBulk'.tasks = tasks']_vars

\* C12 witness: the last of two creates has been reconciled after a retitle
\* made while sync was suppressed, and the payload sent carries that title.
C12_Witness ==
    /\ lastOp.op = "createResponse"
    /\ Len(tasks) = 2
    /\ ~SomeProvisional(tasks)
    /\ bulkIssued
    /\ \E i \in 1..Len(lastBulk.tasks) : lastBulk.tasks[i].title = "X"

\* the store mutations that take the id of a task
IdMutations ==
    {"completeTask", "restoreTask", "startTask", "updateTaskSchedule",
     "updateTaskTitle", "updateTaskTime", "incrementPomodoroSession"}

\* C13: a store mutation called with an id that no task carries (for a
\* reorder: with either id absent) leaves the task list, every field of every
\* task and the current-task pointer as they were.
C13_AbsentIdIsNoOp ==
    [][(\/ lastOp'.op \in IdMutations /\ ~HasId(tasks, lastOp'.id)
        \/ /\ lastOp'.op = "reorderTasks"
           /\ (~HasId(tasks, lastOp'.id) \/ ~HasId(tasks, lastOp'.arg))) =>
        /\ tasks' = tasks
        /\ currentTaskId' = currentTaskId]_vars

\* C14: no two tasks of the store have the same id.
C14_IdsAreUnique ==
    \A i, j \in 1..Len(tasks) : i # j => tasks[i].id # tasks[j].id

\* C15: startSelectedTasks with a non-empty selection makes the first
\* selected id the current task, empties the selection, and leaves the focus
\* view with exactly the tasks that were selected as its task universe.
C15_StartSelectedRestrictsFocus ==
    [][lastOp'.op = "startSelectedTasks" =>
        /\ currentTaskId' = selectedTaskIds[1]
        /\ selectedTaskIds' = <<>>
        /\ IdsOf(focusTasks(tasks', selectedTaskIds', filter')) =
               {selectedTaskIds[i] : i \in 1..Len(selectedTaskIds)}]_vars

\* C16: when a bulk sync completes successfully the rows of the remote
\* collection are exactly the rows of the task list that was sent.
C16_BulkSyncReplacesRemote ==
    [][lastOp'.op = "bulkResolved" => remote' = RowsOf(lastBulk.tasks)]_vars

\* C17: when the task list is reloaded after its bulk sync has completed,
\* every task has the order value it had in the list that was sent and the
\* reloaded list presents the tasks in the same relative order.
C17_OrderSurvivesReload ==
    (/\ lastOp.op = "loadTasks"
     /\ lastBulk.called
     /\ ~bulkInFlight
     /\ IdsOf(tasks) = IdsOf(lastBulk.tasks)) =>
        /\ \A i \in 1..Len(tasks) :
             tasks[i].order = TaskOf(lastBulk.tasks, tasks[i].id).order
        /\ \A i, j \in 1..Len(tasks) :
             i < j => FindIndex(lastBulk.tasks, tasks[i].id)
                          < FindIndex(lastBulk.tasks, tasks[j].id)

\* C18: after rescheduleAllOverdueToToday() no task is overdue; every task
\* that was overdue is in the 'today' filter with scheduledDate at today's
\* midnight and is otherwise as it was; every other task is unchanged.
C18_RescheduleAllOverdue ==
    [][lastOp'.op = "rescheduleAllOverdueToToday" =>
        /\ Len(tasks') = Len(tasks)
        /\ getOverdueTasks(tasks') = <<>>
        /\ \A i \in 1..Len(tasks) :
             IF IsOverdue(tasks[i])
             THEN /\ tasks'[i] = [tasks[i] EXCEPT !.scheduledDate = Midnight(today)]
                  /\ HasId(getFilteredTasks(tasks', "today"), tasks[i].id)
             ELSE tasks'[i] = tasks[i]]_vars

\* C18 witness: the call, the only mutation so far, has moved an overdue
\* task to today while a completed task kept its date.
C18_Witness ==
    /\ lastOp.op = "rescheduleAllOverdueToToday"
    /\ edits = 1
    /\ today > 0
    /\ Len(tasks) = 2
    /\ tasks[1].completed
    /\ tasks[1].scheduledDate = 0
    /\ tasks[2].scheduledDate = TodayStart

C20_LoadKeepsLocalEdits ==
    [][/\ lastOp'.op = "loadTasks" =>
            \A i \in 1..Len(tasks) :
                /\ HasId(tasks', tasks[i].id)
                /\ TaskOf(tasks', tasks[i].id) = tasks[i]
       /\ lastOp'.op = "loadSettings" => tasks' = tasks]_vars

\* the task FocusMode should show when the current id is null or outside
\* the filtered set: the first task of the filtered set, all of them incomplete
FirstFiltered == 
    LET f == getFilteredTasks(tasks, filter)
    IN  IF f # <<>> THEN f[1].id ELSE Null

\* the element that follows the shown task in the filtered set
FollowingInFiltered ==
    LET f == getFilteredTasks(tasks, filter)
        i == FindIndex(f, focusTaskId)
    IN  IF focusTaskId # Null /\ i # 0 /\ i + 1 <= Len(f) THEN f[i + 1].id ELSE Null

\* C21: with no selection, whenever the current id is null or not the id of
\* a task of the filtered set, the task shown to the focus view is the first
\* incomplete task of the filtered set, and the next task is the element
\* following the shown task in the filtered set, or null.
C21_CurrentFallsBackToFirstFiltered ==
    (Ready /\ selectedTaskIds = <<>>) =>
        /\ (currentTaskId = Null
              \/ ~HasId(getFilteredTasks(tasks, filter), currentTaskId)) =>
                focusTaskId = FirstFiltered
        /\ nextTask(tasks, currentTaskId, selectedTaskIds, filter)
               = FollowingInFiltered

\* C22: the tick on which a Break interval expires returns the controller
\* to Pomodoro work with 1500 seconds remaining; afterwards the timer is
\* ticking exactly when FocusMode shows the minimal bar; the remaining time
\* is never negative.
C22_BreakExpiry ==
    [][/\ pomodoroTime' >= 0
       /\ (/\ lastOp'.op = "tick"
           /\ isPomodoroMode
           /\ isBreak
           /\ pomodoroTime = 0) =>
               /\ isPomodoroMode'
               /\ ~isBreak'
               /\ pomodoroTime' = WorkSeconds
               /\ isRunning' = isMinimalMode]_vars

\* C23: a task is completed exactly when it has a completedAt.
C23_CompletedIffCompletedAt ==
    \A i \in 1..Len(tasks) :
        tasks[i].completed <=> (tasks[i].completedAt # NoDate)

\* C24: where every remote delete succeeds and overtakes no bulk sync, once
\* no create request and no bulk sync is in flight the remote holds no
\* record of a task that is not in the store: a task deleted while its
\* create request was in flight has left no record behind.
C24_NoOrphanRecord ==
    (Ready /\ pendingCreates = {} /\ ~bulkInFlight) =>
        \A r \in remote : HasId(tasks, r.id)

\* C25: when the create response for the current task arrives while the
\* timer is running on it, the current pointer and the focus view follow
\* the id change, the timer is still running, and the seconds ticked but
\* not yet flushed are still held or have been added to the task's timeSpent.
C25_ReconcileKeepsFocusSession ==
    [][(/\ lastOp'.op = "createResponse"
        /\ currentTaskId = lastOp'.id
        /\ focusTaskId = lastOp'.id
        /\ isRunning) =>
            /\ currentTaskId' = lastOp'.arg
            /\ focusTaskId' = lastOp'.arg
            /\ isRunning'
            /\ TimeSpentOf(tasks', lastOp'.arg) + sessionSeconds'
                   = TimeSpentOf(tasks, lastOp'.id) + sessionSeconds]_vars

\* C26: every task of the store with a provisional id has a create request
\* in flight for it.
C26_ProvisionalHasPendingCreate ==
    \A i \in 1..Len(tasks) :
        Provisional(tasks[i].id) => \E t \in pendingCreates : t.id = tasks[i].id

\* the task FocusMode showed when Complete was pressed: the task that
\* carries the id held by the pending commit, or that was created from it
IsSlashed(t) ==
    \/ t.id = slashTask
    \/ Provisional(slashTask) /\ t.createdAt = slashTask

\* C27: when the delayed commit of handleComplete runs, the task that was
\* current when Complete was pressed becomes completed, with the seconds
\* still unflushed added to its timeSpent.
C27_CommitCompletesPressedTask ==
    [][lastOp'.op = "completeCommit" =>
        \A i \in 1..Len(tasks) :
            IsSlashed(tasks[i]) =>
                /\ Len(tasks') = Len(tasks)
                /\ tasks'[i].completed
                /\ tasks'[i].timeSpent = tasks[i].timeSpent + sessionSeconds]_vars

\* the order values increase strictly along the list
StrictlyOrdered(ts) ==
    \A i, j \in 1..Len(ts) : i < j => ts[i].order < ts[j].order

\* C28: in a store built from an empty one, after every add, reorder,
\* delete, complete, restore, reschedule, retitle, reconciliation and
\* rollback the order values increase strictly along the task list, and a
\* newly added task has an order greater than that of every task before it.
C28_OrdersStrictlyIncrease ==
    [][/\ StrictlyOrdered(tasks')
       /\ lastOp'.op = "addTask" =>
            /\ Len(tasks') = Len(tasks) + 1
            /\ \A i \in 1..Len(tasks) :
                 tasks[i].order < tasks'[Len(tasks')].order]_vars

\* C28 witness: a task added after a delete has left a gap below it: two
\* tasks, the first with an order above 0.
C28_Witness ==
    /\ lastOp.op = "addTask"
    /\ Len(tasks) = 2
    /\ tasks[1].order > 0
    /\ tasks[2].order > tasks[1].order

\* C29: from the logout that cleared the store until the next session has
\* received its task list, no step calls tasksApi.bulkUpdate.
C29_NoBulkSyncAfterLogout ==
    (~authResponse \/ loadPc = "getAll") => ~bulkIssued

\* C30: reorderTasks with both ids present keeps every task with all its
\* fields but order, keeps the selection, the filter, the session and the
\* settings, and leaves the current-task pointer on the first task of the
\* filtered view whenever that view is not empty.
C30_ReorderFrame ==
    [][(/\ lastOp'.op = "reorderTasks"
        /\ HasId(tasks, lastOp'.id)
        /\ HasId(tasks, lastOp'.arg)) =>
            /\ Len(tasks') = Len(tasks)
            /\ \A i \in 1..Len(tasks) :
                 \E j \in 1..Len(tasks') :
                    tasks'[j] = [tasks[i] EXCEPT !.order = tasks'[j].order]
            /\ selectedTaskIds' = selectedTaskIds
            /\ filter' = filter
            /\ UNCHANGED <<sessVars, prefVars, pendingCreates, remote>>
            /\ getFilteredTasks(tasks', filter') # <<>> =>
                 currentTaskId' = getFilteredTasks(tasks', filter')[1].id]_vars

\* C30 witness: the first mutation, a reorder with a selection in place,
\* has moved the pointer from the first loaded task to the new first task
\* of the filtered view.
C30_Witness ==
    /\ lastOp.op = "reorderTasks"
    /\ edits = 1
    /\ Len(tasks) = MaxTasks
    /\ selectedTaskIds # <<>>
    /\ tasks[1].id # LoadedTask(1).id
    /\ currentTaskId = tasks[1].id

====
